---- MODULE Spec2Model ----
(***************************************************************************)
(* Model of Namcap/rules/sodepends.py: the shared-library dependency rule. *)
(* Python str values are TLA+ strings; every string operation of the rule  *)
(* (re.sub, re.match, startswith, endswith, dirname, normpath, ...) is     *)
(* computed character by character with Len, SubSeq and \o.                *)
(***************************************************************************)
EXTENDS Integers, Sequences, FiniteSets, Bags, TLC

VARIABLES
    libcache,         \* module global: architecture -> (library name -> path)
    pc,               \* position of the process inside / between analyze() calls
    ldout,            \* stdout of this invocation's `ldconfig -p`, a sequence of lines
    tar,              \* the archive being analysed, a sequence of entries
    idx,              \* index of the next entry of `for entry in tar`
    liblist,          \* analyze local: library path -> set of requesting files
    libdepends,       \* analyze local: LibraryKey -> library path
    libprovides,      \* analyze local: LibraryKey -> set of providing files
    installed,        \* result of Namcap.package.get_installed_packages()
    fs,               \* the file system as seen by os.path.realpath
    actualpath,       \* finddepends local: LibraryKey -> real path
    pi,               \* finddepends: index of the package of the outer loop
    fi,               \* finddepends: index of the file of the inner loop
    dependlist,       \* package name -> set of library paths
    libdependlist,    \* LibraryKey -> package name (owner declares the key)
    missing_provides, \* LibraryKey -> package name (owner does not declare it)
    foundlibs,        \* set of LibraryKeys matched by some installed file
    orphans,          \* set of LibraryKeys without an owner
    pkginfo,          \* metadata of the analysed package
    detected_deps,    \* pkginfo.detected_deps: package -> bag of reasons
    infos,            \* self.infos, a bag of diagnostics
    warnings,         \* self.warnings, a bag of diagnostics
    errors            \* self.errors, a bag of diagnostics

vars == <<libcache, pc, ldout, tar, idx, liblist, libdepends, libprovides,
          installed, fs, actualpath, pi, fi, dependlist, libdependlist,
          missing_provides, foundlibs, orphans, pkginfo, detected_deps,
          infos, warnings, errors>>

\* ------------------------------------------------------------------ strings

Min(S) == CHOOSE x \in S : \A y \in S : x <= y
Max(S) == CHOOSE x \in S : \A y \in S : x >= y

\* s[i] of a Python string (1-based here)
CharAt(s, i) == SubSeq(s, i, i)

\* s[i:] of a Python string, for a 0-based i that may exceed len(s)
From(s, i) == SubSeq(s, i + 1, Len(s))

\* str.startswith
StartsWith(s, p) == Len(p) <= Len(s) /\ SubSeq(s, 1, Len(p)) = p

\* str.endswith
EndsWith(s, p) == Len(p) <= Len(s) /\ SubSeq(s, Len(s) - Len(p) + 1, Len(s)) = p

\* the 1-based positions at which p occurs in s
Occurrences(s, p) == {i \in 1..(Len(s) - Len(p) + 1) : SubSeq(s, i, i + Len(p) - 1) = p}

\* `p in s` for strings; also re.compile(r"\.so").search(s) with p = ".so"
Contains(s, p) == Occurrences(s, p) # {}

\* str.find + 1: the first occurrence, 0 when there is none
Find(s, p) == IF Contains(s, p) THEN Min(Occurrences(s, p)) ELSE 0

\* str.rfind + 1: the last occurrence, 0 when there is none
RFind(s, p) == IF Contains(s, p) THEN Max(Occurrences(s, p)) ELSE 0

IsDigit(c) == c \in {"0", "1", "2", "3", "4", "5", "6", "7", "8", "9"}

IsSpace(c) == c \in {" ", "\t"}

\* str.replace(old, new): leftmost non-overlapping occurrences
RECURSIVE Replace(_, _, _)
Replace(s, old, new) ==
    LET i == Find(s, old)
    IN  IF i = 0 THEN s
        ELSE SubSeq(s, 1, i - 1) \o new \o Replace(From(s, i - 1 + Len(old)), old, new)

\* str.split("/") as a sequence of components
RECURSIVE Split(_)
Split(s) ==
    LET i == Find(s, "/")
    IN  IF i = 0 THEN <<s>>
        ELSE <<SubSeq(s, 1, i - 1)>> \o Split(From(s, i))

\* "/".join(comps)
RECURSIVE Join(_)
Join(comps) ==
    IF Len(comps) = 0 THEN ""
    ELSE IF Len(comps) = 1 THEN comps[1]
    ELSE comps[1] \o "/" \o Join(Tail(comps))

\* os.path.dirname (posixpath)
dirname(p) ==
    LET i    == RFind(p, "/")
        head == SubSeq(p, 1, i)
        allslash == \A k \in 1..Len(head) : CharAt(head, k) = "/"
        last == IF {k \in 1..Len(head) : CharAt(head, k) # "/"} = {} THEN 0
                ELSE Max({k \in 1..Len(head) : CharAt(head, k) # "/"})
    IN  IF head # "" /\ ~allslash THEN SubSeq(head, 1, last) ELSE head

\* os.path.basename (posixpath)
basename(p) == From(p, RFind(p, "/"))

\* the component loop of posixpath.normpath
RECURSIVE NormComps(_, _, _)
NormComps(comps, new_comps, initial_slashes) ==
    IF Len(comps) = 0 THEN new_comps
    ELSE LET comp == Head(comps)
             n    == Len(new_comps)
         IN  IF comp \in {"", "."}
             THEN NormComps(Tail(comps), new_comps, initial_slashes)
             ELSE IF comp # ".." \/ (initial_slashes = 0 /\ n = 0)
                                 \/ (n > 0 /\ new_comps[n] = "..")
             THEN NormComps(Tail(comps), Append(new_comps, comp), initial_slashes)
             ELSE IF n > 0
             THEN NormComps(Tail(comps), SubSeq(new_comps, 1, n - 1), initial_slashes)
             ELSE NormComps(Tail(comps), new_comps, initial_slashes)

\* os.path.normpath (posixpath)
normpath(path) ==
    LET initial_slashes ==
            IF ~StartsWith(path, "/") THEN 0
            ELSE IF StartsWith(path, "//") /\ ~StartsWith(path, "///") THEN 2
            ELSE 1
        joined == Join(NormComps(Split(path), <<>>, initial_slashes))
        result == (IF initial_slashes = 2 THEN "//"
                   ELSE IF initial_slashes = 1 THEN "/" ELSE "") \o joined
    IN  IF path = "" THEN "."
        ELSE IF result = "" THEN "." ELSE result

\* the working directory of the process, used by abspath for relative paths
Cwd == "/"

\* os.path.abspath (posixpath)
abspath(path) ==
    IF StartsWith(path, "/") THEN normpath(path)
    ELSE normpath(IF EndsWith(Cwd, "/") THEN Cwd \o path ELSE Cwd \o "/" \o path)

\* os.path.realpath against the file system fs: a path that is a symbolic
\* link resolves to its target, any other path to its normal form
realpath(fsmap, path) ==
    LET n == normpath(path)
    IN  IF n \in DOMAIN fsmap THEN fsmap[n] ELSE n

\* ------------------------------------------------------------- dictionaries

\* {} : the empty dict
EmptyMap == [x \in {} |-> ""]

\* d[k] = v
Put(d, k, v) == [x \in DOMAIN d \cup {k} |-> IF x = k THEN v ELSE d[x]]

\* d[k].add(e) on a defaultdict(set)
AddTo(d, k, e) ==
    [x \in DOMAIN d \cup {k} |->
        IF x = k THEN (IF k \in DOMAIN d THEN d[k] ELSE {}) \cup {e} ELSE d[x]]

\* d[k] on a defaultdict(set), read only
GetSet(d, k) == IF k \in DOMAIN d THEN d[k] ELSE {}

\* dict(filter(lambda elem: elem[1] != v, d.items()))
FilterValuesNot(d, v) == [x \in {y \in DOMAIN d : d[y] # v} |-> d[x]]

\* the list [f[i] for i in DOMAIN f] as a bag: f[i] once for every i
BagOf(f) == [t \in {f[i] : i \in DOMAIN f} |-> Cardinality({i \in DOMAIN f : f[i] = t})]

\* ------------------------------------------------------------ library keys

\* re.sub(r"\.so.*", ".so", name)
soname(name) ==
    LET i == Find(name, ".so")
    IN  IF i = 0 THEN name ELSE SubSeq(name, 1, i - 1) \o ".so"

\* re.sub(r"^.*\.so\.", "", name): the greedy .* stops at the last ".so.",
\* and a name without ".so." is returned unchanged
soversion(name) ==
    LET i == RFind(name, ".so.")
    IN  IF i = 0 THEN name ELSE From(name, i + 3)

\* soname + "=" + soversion + "-" + str(bitsize)
LibraryKey(name, bitsize) ==
    soname(name) \o "=" \o soversion(name) \o "-" \o ToString(bitsize)

\* the 32-bit case missing
Architecture_one_class(bitsize) == "x86-64"

\* match bitsize: case 32 -> "i686"; case 64 -> "x86-64"
Architecture(bitsize) == IF bitsize = 32 THEN "i686" ELSE "x86-64"

\* ------------------------------------------------------------ filllibcache

\* libline.match(line) for libline = r"\s*(.*) \((.*)\) => (.*)".
\* Greedy matching: group 1 ends at the last " (" that still has a ") => "
\* after it, group 2 ends at the last ") => ", group 3 is the rest.
libline_match(line) ==
    LET r  == RFind(line, ") => ")
        ls == {l \in Occurrences(line, " (") : l + 2 <= r}
        l  == IF ls = {} THEN 0 ELSE Max(ls)
        nonspace == {k \in 1..Len(line) : ~IsSpace(CharAt(line, k))}
        ws == IF nonspace = {} THEN Len(line) ELSE Min(nonspace) - 1
        st == IF ws < l - 1 THEN ws ELSE l - 1
    IN  IF r = 0 \/ l = 0 THEN [matched |-> FALSE, g1 |-> "", g2 |-> "", g3 |-> ""]
        ELSE [matched |-> TRUE,
              g1 |-> SubSeq(line, st + 1, l - 1),
              g2 |-> SubSeq(line, l + 2, r - 1),
              g3 |-> From(line, r + 4)]

\* the body of `for j in var[0].decode("ascii").splitlines()`
RECURSIVE filllibcache(_, _)
filllibcache(cache, lines) ==
    IF Len(lines) = 0 THEN cache
    ELSE LET g  == libline_match(Head(lines))
             arch == IF StartsWith(g.g2, "libc6,x86-64") THEN "x86-64" ELSE "i686"
             c1 == IF g.matched
                   THEN [cache EXCEPT ![arch] = Put(cache[arch], g.g1, g.g3)]
                   ELSE cache
         IN  filllibcache(c1, Tail(lines))

\* ---------------------------------------------------------------- scanlibs

StandardLibDirs == {"usr/lib", "usr/lib32"}

\* the path of a needed library that is not in custom_libs (lines 65-69)
cachepath(cache, bitsize, libname) ==
    IF libname \in DOMAIN cache[Architecture(bitsize)]
    THEN From(abspath(cache[Architecture(bitsize)][libname]), 1)
    ELSE libname

\* one iteration of `for tag in section.iter_tags()`; st holds the three maps
ScanTag(st, tag, filename, custom_libs, bitsize, cache) ==
    LET st1 == IF tag.d_tag = "DT_SONAME" /\ dirname(filename) \in StandardLibDirs
               THEN [st EXCEPT !.libprovides =
                        AddTo(@, LibraryKey(tag.val, bitsize), filename)]
               ELSE st
        libname == tag.val
        libpath == cachepath(cache, bitsize, libname)
    IN  IF tag.d_tag # "DT_NEEDED" THEN st1
        ELSE IF libname \in DOMAIN custom_libs THEN st1
        ELSE [st1 EXCEPT !.libdepends = Put(@, LibraryKey(libname, bitsize), libpath),
                         !.liblist = AddTo(@, libpath, filename)]

RECURSIVE ScanTags(_, _, _, _, _, _)
ScanTags(st, tags, filename, custom_libs, bitsize, cache) ==
    IF Len(tags) = 0 THEN st
    ELSE ScanTags(ScanTag(st, Head(tags), filename, custom_libs, bitsize, cache),
                  Tail(tags), filename, custom_libs, bitsize, cache)

\* scanlibs(fileobj, filename, custom_libs, liblist, libdepends, libprovides);
\* fileobj is the entry: is_elf, its ELF class and the tags of its dynamic section
scanlibs(st, entry, custom_libs, cache) ==
    IF ~entry.elf THEN st
    ELSE ScanTags(st, entry.tags, entry.name, custom_libs, entry.elfclass, cache)

\* pkg_so_files = ["/" + n for n in tar.getnames() if ".so" in n]
RECURSIVE pkg_so_files(_)
pkg_so_files(t) ==
    IF Len(t) = 0 THEN <<>>
    ELSE (IF Contains(t[1].name, ".so") THEN <<"/" \o t[1].name>> ELSE <<>>)
         \o pkg_so_files(Tail(t))

\* os.path.normpath(rp.replace("$ORIGIN", "/" + os.path.dirname(entry.path)))
rpath_dirs(entry) ==
    {normpath(Replace(entry.rpaths[i], "$ORIGIN", "/" \o dirname(entry.name))) :
        i \in 1..Len(entry.rpaths)}

\* the loops of lines 163-167 building rpath_files; a later n overwrites
RECURSIVE rpath_files(_, _, _)
rpath_files(acc, so_files, dirs) ==
    IF Len(so_files) = 0 THEN acc
    ELSE LET n == Head(so_files)
         IN  rpath_files(IF dirname(n) \in dirs THEN Put(acc, basename(n), n) ELSE acc,
                         Tail(so_files), dirs)

\* the override map analyze hands to scanlibs for one entry
custom_libs_of(entry, t) ==
    IF entry.elf THEN rpath_files(EmptyMap, pkg_so_files(t), rpath_dirs(entry))
    ELSE EmptyMap

\* the body of `for entry in tar` (lines 155-169) on the three maps st
scan_entry(st, entry, t, cache) ==
    IF ~entry.isfile THEN st
    ELSE scanlibs(st, entry, custom_libs_of(entry, t), cache)

\* ------------------------------------------------------------- finddepends

\* so_end.match(s) for so_end = r"(\.\d+)*": the number of characters the
\* greedy repetition consumes from position i on
RECURSIVE so_end_span(_, _)
so_end_span(s, i) ==
    IF i + 2 <= Len(s) /\ CharAt(s, i + 1) = "." /\ IsDigit(CharAt(s, i + 2))
    THEN LET nondigit == {k \in (i + 2)..Len(s) : ~IsDigit(CharAt(s, k))}
             j == IF nondigit = {} THEN Len(s) ELSE Min(nondigit) - 1
         IN  so_end_span(s, j)
    ELSE i

\* the Match object of so_end.match(s); the pattern also matches the empty
\* string, so match() never returns None
so_end_match(s) == [matched |-> TRUE, end |-> so_end_span(s, 0)]

\* the condition of line 111 for file j and real path p; a Match object is truthy
file_matches(j, p) ==
    j = p \/ (StartsWith(j, p) /\ so_end_match(From(j, Len(p))).matched)

\* is_so.search(j)
is_so(j) == Contains(j, ".so")

\* the keys of knownlibs that file j of an installed package matches
matched_keys(j, known, apath) ==
    IF ~is_so(j) THEN {} ELSE {k \in known : file_matches(j, apath[k])}

\* dependlist[pkg.name].add(libdepends[k]) for every matched k
add_depends(dl, pkgname, ks, ld) ==
    IF ks = {} THEN dl
    ELSE [x \in DOMAIN dl \cup {pkgname} |->
            IF x = pkgname THEN GetSet(dl, pkgname) \cup {ld[k] : k \in ks} ELSE dl[x]]

\* libdependlist[k] = pkg.name / missing_provides[k] = pkg.name
set_owner(d, ks, pkgname) ==
    [x \in DOMAIN d \cup ks |-> IF x \in ks THEN pkgname ELSE d[x]]

\* the operands of the set difference exchanged
orphans_of_swapped(known, found) == found \ known

\* orphans = list(knownlibs - foundlibs)
orphans_of(known, found) == known \ found

\* the first position (package, file) of the two loops at or after package p
FirstPkg(inst, p) ==
    LET ok == {q \in p..Len(inst) : Len(inst[q].files) > 0}
    IN  IF ok = {} THEN Len(inst) + 1 ELSE Min(ok)

\* ----------------------------------------------------------------- analyze

\* liblist[libdepends[i]]
requesters(i) == GetSet(liblist, libdepends[i])

\* lines 179-184
orphan_warnings(orph) ==
    BagOf([i \in orph |->
              <<"library-no-package-associated", libdepends[i], requesters(i)>>])

\* lines 187-192
missing_infos(mp) ==
    BagOf([i \in DOMAIN mp |->
              <<"libdepends-missing-provides", i, mp[i], requesters(i)>>])

\* lines 195-201: the info of every package of dependlist
link_infos(dl) ==
    BagOf([p \in DOMAIN dl |->
              <<"link-level-dependence", p, dl[p]>>])

\* lines 198-200: pkginfo.detected_deps.setdefault(pkg, []).append(...)
link_reasons(dl) ==
    [p \in DOMAIN dl |->
        SetToBag({<<"libraries-needed", dl[p],
                    UNION {GetSet(liblist, lib) : lib \in dl[p]}>>})]

\* the depends and optdepends tests exchanged
soname_template_swapped(i, pk) ==
    IF i \in pk.optdepends THEN "libdepends-detected-satisfied"
    ELSE IF i \in pk.depends THEN "libdepends-detected-but-optional"
    ELSE "libdepends-detected-not-included"

\* lines 204-226: one info for every key of the filtered libdependlist
soname_template(i, pk) ==
    IF i \in pk.depends THEN "libdepends-detected-satisfied"
    ELSE IF i \in pk.optdepends THEN "libdepends-detected-but-optional"
    ELSE "libdepends-detected-not-included"

soname_infos(ldl, pk) ==
    BagOf([i \in DOMAIN ldl |->
              <<soname_template(i, pk), i, ldl[i], requesters(i)>>])

\* the entries of a declaration list that name a library no key of d matches
Undetected(decl, d) == {x \in decl : Contains(x, ".so") /\ x \notin DOMAIN d}

\* the entries of a declaration list that end in ".so"
Versionless(decl) == {x \in decl : EndsWith(x, ".so")}

\* the second test of the loop written as `elif`
depends_check_elif(pk, ldl) ==
    [warnings |-> BagOf([i \in Undetected(pk.depends, ldl) |->
                            <<"libdepends-not-needed", i>>]),
     errors   |-> BagOf([i \in Versionless(pk.depends) \ Undetected(pk.depends, ldl) |->
                            <<"libdepends-without-version", i>>])]

\* lines 228-232: the two independent tests on every declared dependency
depends_check(pk, ldl) ==
    [warnings |-> BagOf([i \in Undetected(pk.depends, ldl) |->
                            <<"libdepends-not-needed", i>>]),
     errors   |-> BagOf([i \in Versionless(pk.depends) |->
                            <<"libdepends-without-version", i>>])]

\* lines 242-246
provides_infos(pk, lp) ==
    BagOf([i \in DOMAIN lp |->
              <<IF i \in pk.provides THEN "libprovides-satisfied" ELSE "libprovides-unsatisfied",
          i, lp[i]>>])

\* lines 248-252: the two independent tests on every declared provision
provides_check(pk, lp) ==
    [warnings |-> BagOf([i \in Undetected(pk.provides, lp) |->
                            <<"libprovides-missing", i>>]),
     errors   |-> BagOf([i \in Versionless(pk.provides) |->
                            <<"libprovides-without-version", i>>])]

\* lines 257-261; testing is the set of packages whose testing and stable
\* versions are equal
testing_warnings(dl, testing) ==
    BagOf([i \in DOMAIN dl \cap testing |->
              <<"dependency-is-testing-release", i>>])

\* ------------------------------------------------------------------ inputs

\* the largest number of entries of an analysed archive
MaxFiles == 2

Tag(d, v) == [d_tag |-> d, val |-> v]

Entry(n, f, e, c, t, r) ==
    [name |-> n, isfile |-> f, elf |-> e, elfclass |-> c, tags |-> t, rpaths |-> r]

EntryApp == Entry("usr/bin/app", TRUE, TRUE, 64,
                  <<Tag("DT_NEEDED", "libfoo.so.2")>>, <<>>)

EntryApp32 == Entry("usr/bin/app32", TRUE, TRUE, 32,
                    <<Tag("DT_NEEDED", "libssl.so.3")>>, <<>>)

EntryLib == Entry("usr/lib/libbaz.so.1.0", TRUE, TRUE, 64,
                  <<Tag("DT_SONAME", "libbaz.so.1"), Tag("DT_FLAGS", ""),
                    Tag("DT_NEEDED", "libssl.so.3"), Tag("DT_NEEDED", "libfoo.so")>>, <<>>)

EntryTool == Entry("opt/app/bin/tool", TRUE, TRUE, 64,
                   <<Tag("DT_NEEDED", "libgpm.so.1"), Tag("DT_NEEDED", "libbar.so.5")>>,
                   <<"$ORIGIN/../lib">>)

EntryPriv == Entry("opt/app/lib/libbar.so.5", TRUE, TRUE, 64,
                   <<Tag("DT_SONAME", "libbar.so.5"), Tag("DT_NEEDED", "libfoo.so.so.2")>>,
                   <<>>)

\* a directory member and a regular file that is not an ELF object
EntryDir == Entry("usr/lib", FALSE, FALSE, 0, <<>>, <<>>)

EntryDoc == Entry("usr/share/doc/app/README", TRUE, FALSE, 0, <<>>, <<>>)

Entries == {EntryApp, EntryApp32, EntryLib, EntryTool, EntryPriv, EntryDoc, EntryDir}

\* the archives: sequences of at most n distinct entries
RECURSIVE TarsUpTo(_)
TarsUpTo(n) ==
    IF n = 0 THEN {<<>>}
    ELSE LET prev == TarsUpTo(n - 1)
         IN  prev \cup {Append(t, e) : t \in {u \in prev : Len(u) = n - 1},
                                       e \in Entries} 

Distinct(t) == \A i, j \in 1..Len(t) : i # j => t[i] # t[j]

Tars == {t \in TarsUpTo(MaxFiles) : Distinct(t)}

\* outputs of `ldconfig -p`; the empty output is that of a failed command
LdHeader == "4 libs found in cache `/etc/ld.so.cache'"

LdFull == <<LdHeader,
            "\tlibfoo.so.2 (libc6,x86-64) => /usr/lib/libfoo.so.2",
            "\tlibssl.so.3 (libc6,x86-64) => /usr/lib/libssl.so.3",
            "\tlibssl.so.3 (libc6) => /usr/lib/../lib32/libssl.so.3",
            "\tlibgpm.so.1 (libc6,x86-64) => /usr/lib/libgpm.so.1">>

Ld32 == <<LdHeader,
          "\tlibssl.so.3 (libc6) => /usr/lib32/libssl.so.3",
          "\tlibfoo.so.2 (libc6) => /usr/lib32/libfoo.so.2">>

LdNoMatch == <<"0 libs found in cache `/etc/ld.so.cache'">>

LdFailed == <<>>

LdOutputs == {LdFull, Ld32, LdNoMatch, LdFailed}

Package(n, f, p) == [name |-> n, files |-> f, provides |-> p]

PkgFoo == Package("foo", <<"usr/lib/libfoo.so.2.0.1">>, {"libfoo.so=2.0.1-64"})

PkgFooKey == Package("foo", <<"usr/share/licenses/foo/LICENSE", "usr/lib/libfoo.so.2.0.1">>,
                     {"libfoo.so=2-64"})

PkgFooCompat == Package("foo-compat", <<"usr/lib/libfoo.so.2">>, {"libfoo.so=2-64"})

PkgGpm == Package("gpm", <<"usr/lib/libgpm.so.1.19.0">>, {"libgpm.so=1-64"})

PkgJunk == Package("gpm-junk", <<"usr/lib/libgpm.so.1abc">>, {})

PkgSsl == Package("openssl", <<"usr/lib/libssl.so.3">>, {"libssl.so=3-64"})

PkgBase == Package("filesystem", <<>>, {})

PkgSelf == Package("app", <<"usr/lib/libssl.so.3">>, {"libssl.so=3-64"})

\* the systems the rule runs on: the result of get_installed_packages(), in
\* enumeration order, and the symbolic links os.path.realpath follows
System(i, f) == [installed |-> i, fs |-> f]

FooLink == [x \in {"/usr/lib/libfoo.so.2"} |-> "/usr/lib/libfoo.so.2.0.1"]

Systems == {System(<<PkgFoo, PkgBase, PkgGpm, PkgSsl>>, FooLink),
            System(<<PkgFooCompat, PkgFooKey, PkgJunk>>, EmptyMap),
            System(<<PkgFooKey, PkgSelf>>, EmptyMap),
            System(<<>>, EmptyMap)}

PkgInfo(n, d, o, p) == [name |-> n, depends |-> d, optdepends |-> o, provides |-> p]

PkgInfos == {PkgInfo("app", {}, {}, {}),
             PkgInfo("app", {"libfoo.so=2.0.1-64"}, {}, {"libbaz.so"}),
             PkgInfo("app", {"libfoo.so=2-64", "libssl.so", "glibc"}, {},
                     {"libbaz.so=1-64", "libqux.so"}),
             PkgInfo("app", {"libbar.so"}, {"libfoo.so=2-64"}, {"libbaz.so=1-64"})}

\* packages whose testing and stable versions are equal
TestingSets == {{}, {"foo"}}

Architectures == {"i686", "x86-64"}

\* ----------------------------------------------------------- state machine

\* the state of a process that is not inside analyze(): only the module
\* global libcache lives on
Idle ==
    /\ pc = "idle"
    /\ ldout = <<>>
    /\ tar = <<>>
    /\ idx = 1
    /\ liblist = EmptyMap
    /\ libdepends = EmptyMap
    /\ libprovides = EmptyMap
    /\ installed = <<>>
    /\ fs = EmptyMap
    /\ actualpath = EmptyMap
    /\ pi = 1
    /\ fi = 1
    /\ dependlist = EmptyMap
    /\ libdependlist = EmptyMap
    /\ missing_provides = EmptyMap
    /\ foundlibs = {}
    /\ orphans = {}
    /\ pkginfo = PkgInfo("", {}, {}, {})
    /\ detected_deps = EmptyMap
    /\ infos = EmptyBag
    /\ warnings = EmptyBag
    /\ errors = EmptyBag

\* libcache = {"i686": {}, "x86-64": {}} at import; no analysis has started
Init ==
    /\ libcache = [a \in Architectures |-> EmptyMap]
    /\ Idle

\* analyze(self, pkginfo, tar), lines 144-152, on a fresh rule object: the
\* local maps are created, filllibcache() runs on this invocation's ldconfig
\* output, and the loop over the archive is entered.  pkginfo is first read
\* at line 175 and is drawn there.
Analyze(t, out) ==
    /\ pc = "idle"
    /\ tar' = t
    /\ ldout' = out
    /\ libcache' = filllibcache(libcache, out)
    /\ idx' = 1
    /\ liblist' = EmptyMap
    /\ libdepends' = EmptyMap
    /\ libprovides' = EmptyMap
    /\ dependlist' = EmptyMap
    /\ libdependlist' = EmptyMap
    /\ missing_provides' = EmptyMap
    /\ pc' = "scan"
    /\ UNCHANGED <<installed, fs, actualpath, pi, fi, foundlibs, orphans, pkginfo,
                   detected_deps, infos, warnings, errors>>

\* one iteration of `for entry in tar`, lines 154-169
ScanEntry ==
    /\ pc = "scan"
    /\ idx <= Len(tar)
    /\ LET entry == tar[idx]
           st == [liblist |-> liblist, libdepends |-> libdepends,
                  libprovides |-> libprovides]
           r  == scan_entry(st, entry, tar, libcache)
       IN  /\ liblist' = r.liblist
           /\ libdepends' = r.libdepends
           /\ libprovides' = r.libprovides
    /\ idx' = idx + 1
    /\ UNCHANGED <<libcache, pc, ldout, tar, installed, fs, actualpath, pi, fi,
                   dependlist, libdependlist, missing_provides, foundlibs, orphans,
                   pkginfo, detected_deps, infos, warnings, errors>>

\* the loop over the archive is over (line 171)
ScanDone ==
    /\ pc = "scan"
    /\ idx > Len(tar)
    /\ pc' = "scanned"
    /\ UNCHANGED <<libcache, ldout, tar, idx, liblist, libdepends, libprovides,
                   installed, fs, actualpath, pi, fi, dependlist, libdependlist,
                   missing_provides, foundlibs, orphans, pkginfo, detected_deps,
                   infos, warnings, errors>>

\* finddepends(libdepends), lines 84-102: the locals are set up, the real
\* paths computed and the installed packages enumerated.  The archive is not
\* read again after the scan and is dropped from the state here.
FindDependsBegin(sys) ==
    /\ pc = "scanned"
    /\ installed' = sys.installed
    /\ fs' = sys.fs
    /\ actualpath' = [j \in DOMAIN libdepends |->
                         From(realpath(sys.fs, "/" \o libdepends[j]), 1)]
    /\ dependlist' = EmptyMap
    /\ libdependlist' = EmptyMap
    /\ missing_provides' = EmptyMap
    /\ foundlibs' = {}
    /\ pi' = FirstPkg(sys.installed, 1)
    /\ fi' = 1
    /\ tar' = <<>>
    /\ idx' = 1
    /\ pc' = "resolve"
    /\ UNCHANGED <<libcache, ldout, liblist, libdepends, libprovides,
                   orphans, pkginfo, detected_deps, infos, warnings, errors>>

\* one iteration of `for j, fsize, fmode in pkg.files`, lines 103-118
FindDependsFile ==
    /\ pc = "resolve"
    /\ pi <= Len(installed)
    /\ LET pkg == installed[pi]
           j   == pkg.files[fi]
           ks  == matched_keys(j, DOMAIN libdepends, actualpath)
       IN  /\ dependlist' = add_depends(dependlist, pkg.name, ks, libdepends)
           /\ foundlibs' = foundlibs \cup ks
           /\ libdependlist' = set_owner(libdependlist, ks \cap pkg.provides, pkg.name)
           /\ missing_provides' = set_owner(missing_provides, ks \ pkg.provides, pkg.name)
           /\ IF fi < Len(pkg.files)
              THEN pi' = pi /\ fi' = fi + 1
              ELSE pi' = FirstPkg(installed, pi + 1) /\ fi' = 1
    /\ UNCHANGED <<libcache, pc, ldout, tar, idx, liblist, libdepends, libprovides,
                   installed, fs, actualpath, orphans, pkginfo, detected_deps,
                   infos, warnings, errors>>

\* lines 120-121 and 172: the loops are over, finddepends returns
FindDependsReturn ==
    /\ pc = "resolve"
    /\ pi > Len(installed)
    /\ orphans' = orphans_of(DOMAIN libdepends, foundlibs)
    /\ pc' = "report"
    /\ UNCHANGED <<libcache, ldout, tar, idx, liblist, libdepends, libprovides,
                   installed, fs, actualpath, pi, fi, dependlist, libdependlist,
                   missing_provides, foundlibs, pkginfo, detected_deps,
                   infos, warnings, errors>>

\* lines 175-261 for the package metadata pk: internal dependencies are
\* filtered out and every diagnostic is emitted
Reconcile(pk, testing) ==
    /\ pc = "report"
    /\ pkginfo' = pk
    /\ LET ldl == FilterValuesNot(libdependlist, pk.name)
           mp  == FilterValuesNot(missing_provides, pk.name)
           dc  == depends_check(pk, ldl)
           pv  == provides_check(pk, libprovides)
       IN  /\ libdependlist' = ldl
           /\ missing_provides' = mp
           /\ warnings' = warnings (+) orphan_warnings(orphans) (+) dc.warnings
                          (+) pv.warnings (+) testing_warnings(dependlist, testing)
           /\ infos' = infos (+) missing_infos(mp) (+) link_infos(dependlist)
                       (+) soname_infos(ldl, pk)
                       (+) SetToBag({<<"libdepends-by-namcap-sight",
                                       DOMAIN ldl \cup {mp[i] : i \in DOMAIN mp}>>})
                       (+) provides_infos(pk, libprovides)
                       (+) SetToBag({<<"libprovides-by-namcap-sight", DOMAIN libprovides>>})
           /\ errors' = errors (+) dc.errors (+) pv.errors
           /\ detected_deps' = link_reasons(dependlist)
    /\ pc' = "done"
    /\ UNCHANGED <<libcache, ldout, tar, idx, liblist, libdepends, libprovides,
                   installed, fs, actualpath, pi, fi, dependlist, foundlibs, orphans>>

\* analyze returns: its locals and the rule object go away, libcache stays
Return ==
    /\ pc = "done"
    /\ pc' = "idle"
    /\ ldout' = <<>>
    /\ tar' = <<>>
    /\ idx' = 1
    /\ liblist' = EmptyMap
    /\ libdepends' = EmptyMap
    /\ libprovides' = EmptyMap
    /\ installed' = <<>>
    /\ fs' = EmptyMap
    /\ actualpath' = EmptyMap
    /\ pi' = 1
    /\ fi' = 1
    /\ dependlist' = EmptyMap
    /\ libdependlist' = EmptyMap
    /\ missing_provides' = EmptyMap
    /\ foundlibs' = {}
    /\ orphans' = {}
    /\ pkginfo' = PkgInfo("", {}, {}, {})
    /\ detected_deps' = EmptyMap
    /\ infos' = EmptyBag
    /\ warnings' = EmptyBag
    /\ errors' = EmptyBag
    /\ UNCHANGED libcache

Next ==
    \/ \E t \in Tars, out \in LdOutputs : Analyze(t, out)
    \/ ScanEntry
    \/ ScanDone
    \/ \E sys \in Systems : FindDependsBegin(sys)
    \/ FindDependsFile
    \/ FindDependsReturn
    \/ \E pk \in PkgInfos, testing \in TestingSets : Reconcile(pk, testing)
    \/ Return

Spec == Init /\ [][Next]_vars

\* ------------------------------------------------------------------ claims

\* the regular ELF files of an archive, by position
ElfEntries(t) == {i \in 1..Len(t) : t[i].isfile /\ t[i].elf}

\* the DT_NEEDED names of an entry
NeededNames(e) ==
    {e.tags[x].val : x \in {y \in 1..Len(e.tags) : e.tags[y].d_tag = "DT_NEEDED"}}

\* every DT_NEEDED tag of every ELF file of the archive, with the file's
\* override map
Requirements(t) ==
    UNION {{[file |-> t[i].name, bits |-> t[i].elfclass, name |-> n,
             custom |-> custom_libs_of(t[i], t)] : n \in NeededNames(t[i])} :
           i \in ElfEntries(t)}

\* the requirements scanlibs resolves through the cache or the raw name
CacheRequirements(t) == {r \in Requirements(t) : r.name \notin DOMAIN r.custom}

\* the three maps as one record
Maps == [liblist |-> liblist, libdepends |-> libdepends, libprovides |-> libprovides]

NoMaps == [liblist |-> EmptyMap, libdepends |-> EmptyMap, libprovides |-> EmptyMap]

\* a string made only of groups of a dot followed by digits, up to its end
IsVersionSuffix(s) == so_end_span(s, 0) = Len(s)

\* the packages, by position, owning a file that line 111 accepts for key k
MatchingPkgs(k) ==
    {p \in 1..Len(installed) :
        \E f \in 1..Len(installed[p].files) :
            /\ is_so(installed[p].files[f])
            /\ file_matches(installed[p].files[f], actualpath[k])}

\* the number of diagnostics of bag b with template t
CountTemplate(b, t) ==
    BagCardinality([x \in {y \in DOMAIN b : y[1] = t} |-> b[x]])

\* C1: a key is found only through an installed file that equals its real
\* path or extends it by a suffix made solely of groups of a dot and digits.
C1_AnchoredSuffix ==
    \A k \in foundlibs :
        \E p \in 1..Len(installed) : \E f \in 1..Len(installed[p].files) :
            LET j == installed[p].files[f]
            IN  \/ j = actualpath[k]
                \/ /\ StartsWith(j, actualpath[k])
                   /\ IsVersionSuffix(From(j, Len(actualpath[k])))

\* C2: after the scan every DT_NEEDED tag of a scanned ELF file has its
\* LibraryKey in libdepends, and a tag whose name is in the override map is
\* recorded with the override path without its leading "/", the file being
\* in liblist under that path.
C2_EveryNeededRecorded ==
    pc = "scanned" =>
        \A r \in Requirements(tar) :
            LET k == LibraryKey(r.name, r.bits)
            IN  /\ k \in DOMAIN libdepends
                /\ r.name \in DOMAIN r.custom =>
                       /\ libdepends[k] = From(r.custom[r.name], 1)
                       /\ r.file \in GetSet(liblist, From(r.custom[r.name], 1))

\* the derivation of the claim: soname is the name cut just after its first
\* ".so", version the part after its last ".so.", empty when there is none
ClaimedSoname(n) == IF Contains(n, ".so") THEN SubSeq(n, 1, Find(n, ".so") + 2) ELSE n

ClaimedVersion(n) == IF Contains(n, ".so.") THEN From(n, RFind(n, ".so.") + 3) ELSE ""

ClaimedKey(n, bits) == ClaimedSoname(n) \o "=" \o ClaimedVersion(n) \o "-" \o ToString(bits)

\* C3: the key recorded for a needed name n is soname "=" version "-" bits
\* with soname n cut after its first ".so" and version the part after its
\* last ".so.", the empty string when n has no ".so.".
C3_KeyDerivation ==
    pc = "scanned" =>
        \A r \in CacheRequirements(tar) : ClaimedKey(r.name, r.bits) \in DOMAIN libdepends

C4_Key == "libfoo.so=2-64"

C4_File == "usr/lib/libfoo.so.2.0.1"

\* the positions of the installed package Q = "foo" owning C4_File
C4_Q == {p \in 1..Len(installed) :
            /\ installed[p].name = "foo"
            /\ \E f \in 1..Len(installed[p].files) : installed[p].files[f] = C4_File}

\* the scenario: usr/bin/app needs libfoo.so.2 (64-bit), the resolved path
\* matches C4_File of Q, Q is the only package with a matching file and is
\* not the analysed package
C4_Scenario ==
    /\ pc = "done"
    /\ C4_Key \in DOMAIN libdepends
    /\ "usr/bin/app" \in requesters(C4_Key)
    /\ file_matches(C4_File, actualpath[C4_Key])
    /\ C4_Q # {}
    /\ MatchingPkgs(C4_Key) = C4_Q
    /\ pkginfo.name # "foo"

C4_Provides == UNION {installed[p].provides : p \in C4_Q}

C4_Info(template) == <<template, C4_Key, "foo", requesters(C4_Key)>>

\* C4 as stated: with Q declaring provides = {"libfoo.so=2.0.1-64"} the key
\* is in libdependlist with owner Q, not in missing_provides, and the report
\* says satisfied for depends = {"libfoo.so=2.0.1-64"} and not-included for
\* no depends.
C4_AsStated ==
    (C4_Scenario /\ C4_Provides = {"libfoo.so=2.0.1-64"}) =>
        /\ libdepends[C4_Key] \in GetSet(dependlist, "foo")
        /\ C4_Key \in DOMAIN libdependlist
        /\ libdependlist[C4_Key] = "foo"
        /\ C4_Key \notin DOMAIN missing_provides
        /\ pkginfo.depends = {"libfoo.so=2.0.1-64"} =>
               CopiesIn(C4_Info("libdepends-detected-satisfied"), infos) = 1
        /\ pkginfo.depends = {} =>
               CopiesIn(C4_Info("libdepends-detected-not-included"), infos) = 1

\* C4 amended: dependlist[Q] holds the resolved path; the requirement's key
\* is "libfoo.so=2-64".  When Q's provides holds that key, libdependlist maps
\* it to Q and the report says satisfied if P's depends holds the key and
\* not-included if neither depends nor optdepends does.  When Q declares only
\* "libfoo.so=2.0.1-64", the key is in missing_provides with owner Q, the
\* report says missing-provides and none of the three detected infos, and a
\* declared depends "libfoo.so=2.0.1-64" is reported as not needed.
C4_EndToEnd ==
    C4_Scenario =>
        /\ libdepends[C4_Key] \in GetSet(dependlist, "foo")
        /\ C4_Key \in C4_Provides =>
               /\ C4_Key \in DOMAIN libdependlist
               /\ libdependlist[C4_Key] = "foo"
               /\ C4_Key \notin DOMAIN missing_provides
               /\ C4_Key \in pkginfo.depends =>
                      CopiesIn(C4_Info("libdepends-detected-satisfied"), infos) = 1
               /\ C4_Key \notin pkginfo.depends \cup pkginfo.optdepends =>
                      CopiesIn(C4_Info("libdepends-detected-not-included"), infos) = 1
        /\ C4_Key \notin C4_Provides =>
               /\ C4_Key \in DOMAIN missing_provides
               /\ missing_provides[C4_Key] = "foo"
               /\ C4_Key \notin DOMAIN libdependlist
               /\ CopiesIn(C4_Info("libdepends-missing-provides"), infos) = 1
               /\ CopiesIn(C4_Info("libdepends-detected-satisfied"), infos) = 0
               /\ CopiesIn(C4_Info("libdepends-detected-but-optional"), infos) = 0
               /\ CopiesIn(C4_Info("libdepends-detected-not-included"), infos) = 0
               /\ "libfoo.so=2.0.1-64" \in pkginfo.depends =>
                      CopiesIn(<<"libdepends-not-needed", "libfoo.so=2.0.1-64">>, warnings) = 1

\* the scenario of C4 with Q declaring provides = {"libfoo.so=2.0.1-64"} and
\* P declaring depends = {"libfoo.so=2.0.1-64"}
C4_Witness ==
    /\ C4_Scenario
    /\ C4_Provides = {"libfoo.so=2.0.1-64"}
    /\ pkginfo.depends = {"libfoo.so=2.0.1-64"}
    /\ libdepends[C4_Key] = "usr/lib/libfoo.so.2"
    /\ C4_Key \in DOMAIN missing_provides

\* C5: when finddepends has returned, the owner stored for a found key is the
\* first package, in enumeration order, with a matching file, and the key's
\* library is in no other package's dependlist set.
C5_FirstMatchWins ==
    pc = "report" =>
        \A k \in foundlibs :
            LET first == installed[Min(MatchingPkgs(k))].name
            IN  /\ k \in DOMAIN libdependlist => libdependlist[k] = first
                /\ k \in DOMAIN missing_provides => missing_provides[k] = first
                /\ ~(k \in DOMAIN libdependlist /\ k \in DOMAIN missing_provides)
                /\ \A q \in DOMAIN dependlist \ {first} : libdepends[k] \notin dependlist[q]

\* C6: the orphans finddepends returns are exactly the required keys that no
\* file of an installed package matched, found keys and orphans partition the
\* required keys, and analyze emits one "library-no-package-associated"
\* warning for each orphan.
C6_Orphans ==
    /\ pc \in {"report", "done"} =>
           /\ orphans = {k \in DOMAIN libdepends : MatchingPkgs(k) = {}}
           /\ orphans \cap foundlibs = {}
           /\ orphans \cup foundlibs = DOMAIN libdepends
    /\ pc = "done" =>
           /\ CountTemplate(warnings, "library-no-package-associated") = Cardinality(orphans)
           /\ \A i \in orphans :
                  CopiesIn(<<"library-no-package-associated", libdepends[i], requesters(i)>>,
                           warnings)
                  = Cardinality({o \in orphans : libdepends[o] = libdepends[i]})

\* libbar.so.5 has no override and no cache entry, falls back to its raw
\* name, is matched by no installed file and is reported, while another
\* requirement of the package is found
C6_Witness ==
    /\ pc = "done"
    /\ "libbar.so=5-64" \in orphans
    /\ libdepends["libbar.so=5-64"] = "libbar.so.5"
    /\ foundlibs # {}
    /\ installed # <<>>
    /\ CopiesIn(<<"library-no-package-associated", "libbar.so.5", {"opt/app/bin/tool"}>>,
                warnings) = 1

\* the cache of a word size, by the class names of the claim
CacheOfBits(bits) == IF bits = 64 THEN libcache["x86-64"] ELSE libcache["i686"]

OtherBits(bits) == IF bits = 64 THEN 32 ELSE 64

\* the path recorded for cache entry c[n]
DerivedPath(c, n) == From(abspath(c[n]), 1)

\* requirement r accounts for the path recorded under key k
ResolvedInOwnClass(k, r) ==
    LET own   == CacheOfBits(r.bits)
        other == CacheOfBits(OtherBits(r.bits))
    IN  /\ r.name \in DOMAIN own => libdepends[k] = DerivedPath(own, r.name)
        /\ r.name \notin DOMAIN own => libdepends[k] = r.name
        /\ (/\ r.name \in DOMAIN own
            /\ r.name \in DOMAIN other
            /\ DerivedPath(other, r.name) # DerivedPath(own, r.name))
           => libdepends[k] # DerivedPath(other, r.name)

\* C7: the path recorded for a key comes from a requirement of that key
\* resolved in the cache of the requiring binary's own word size: the entry
\* of the "x86-64" cache for a 64-bit binary, of the "i686" cache for a
\* 32-bit one, the raw name when that cache lacks the name, and never the
\* differing path of the other class.
C7_ArchPartition ==
    pc = "scanned" =>
        \A k \in DOMAIN libdepends :
            \E r \in CacheRequirements(tar) :
                /\ LibraryKey(r.name, r.bits) = k
                /\ ResolvedInOwnClass(k, r)

\* libssl.so.3 is in both caches with different paths and is required by a
\* 32-bit and by a 64-bit binary of the package
C7_Witness ==
    /\ pc = "scanned"
    /\ "libssl.so.3" \in DOMAIN libcache["i686"]
    /\ "libssl.so.3" \in DOMAIN libcache["x86-64"]
    /\ "libssl.so=3-32" \in DOMAIN libdepends
    /\ "libssl.so=3-64" \in DOMAIN libdepends
    /\ libdepends["libssl.so=3-32"] = "usr/lib32/libssl.so.3"
    /\ libdepends["libssl.so=3-64"] = "usr/lib/libssl.so.3"

\* C8: inside an invocation the cache holds exactly the entries parsed from
\* that invocation's own ldconfig output.
C8_CacheIsThisListing ==
    pc # "idle" => libcache = filllibcache([a \in Architectures |-> EmptyMap], ldout)

\* C9: every declared provides (depends) entry ending in ".so" has exactly
\* one "libprovides-without-version" ("libdepends-without-version") error,
\* every other entry has none, and there is no further error.
C9_VersionlessErrors ==
    pc = "done" =>
        /\ \A e \in pkginfo.provides :
               CopiesIn(<<"libprovides-without-version", e>>, errors)
               = IF EndsWith(e, ".so") THEN 1 ELSE 0
        /\ \A e \in pkginfo.depends :
               CopiesIn(<<"libdepends-without-version", e>>, errors)
               = IF EndsWith(e, ".so") THEN 1 ELSE 0
        /\ BagCardinality(errors)
           = Cardinality({e \in pkginfo.provides : EndsWith(e, ".so")})
             + Cardinality({e \in pkginfo.depends : EndsWith(e, ".so")})

\* versionless entries are declared next to a satisfied versioned dependency
\* and a detected versioned provision, with other diagnostics emitted
C9_Witness ==
    /\ pc = "done"
    /\ "libqux.so" \in pkginfo.provides
    /\ "libssl.so" \in pkginfo.depends
    /\ CopiesIn(<<"libprovides-without-version", "libqux.so">>, errors) = 1
    /\ CopiesIn(<<"libdepends-without-version", "libssl.so">>, errors) = 1
    /\ "libfoo.so=2-64" \in DOMAIN libdependlist
    /\ "libfoo.so=2-64" \in pkginfo.depends
    /\ "libbaz.so=1-64" \in DOMAIN libprovides
    /\ CopiesIn(<<"libdepends-not-needed", "libssl.so">>, warnings) = 1

\* the maps after the entries of q have been scanned in that order, the
\* override maps being those of archive t
RECURSIVE ScanInOrder(_, _, _, _)
ScanInOrder(st, q, t, cache) ==
    IF Len(q) = 0 THEN st
    ELSE ScanInOrder(scan_entry(st, Head(q), t, cache), Tail(q), t, cache)

\* the orders in which the entries of t can be scanned
Orders(t) ==
    {q \in Tars : Len(q) = Len(t) /\ {q[i] : i \in 1..Len(q)} = {t[i] : i \in 1..Len(t)}}

\* C10: the maps after the scan are those of every other scan order, and
\* every file requiring a key is in liblist under the key's recorded path.
C10_OrderIndependent ==
    pc = "scanned" =>
        /\ \A q \in Orders(tar) : ScanInOrder(NoMaps, q, tar, libcache) = Maps
        /\ \A r \in CacheRequirements(tar) :
               r.file \in GetSet(liblist, libdepends[LibraryKey(r.name, r.bits)])

====
